---- MODULE Spec2Model ----
(***************************************************************************)
(* The authentication and ownership boundary of the judix task API, as     *)
(* written in the two implementation guides of the repository:             *)
(*   "backend" : src/BACKEND_SOURCE_CODE.md  (backend guide)               *)
(*   "build"   : src/unnamed/part_000        (build guide)                 *)
(* A run fixes one guide and then serves register, login and task          *)
(* requests of several clients.  A handler is cut at its store operations: *)
(* one action is one store operation together with the synchronous code    *)
(* that precedes it (middleware, argument handling) or follows it (the     *)
(* response).                                                              *)
(***************************************************************************)
EXTENDS Integers, Sequences, FiniteSets, TLC

----------------------------------------------------------------------------
(* Bounds of the model *)

MaxTime == 2       \* the clock runs 0..MaxTime
JWT_EXPIRE == 2    \* token lifetime in clock units ('7d' in the .env file)
MaxUsers == 2      \* principals the credential store may hold
MaxTasks == 2      \* tasks ever created
MaxClients == 2    \* clients, each with at most one request in flight

Clients == 1..MaxClients
Guides == {"backend", "build"}

----------------------------------------------------------------------------
(* Values of request fields *)

Undef == "undefined"            \* a field the request does not carry
Emails == {"a@x.com", "A@x.com", "b@x.com"}
Passwords == {"p1", "p2"}
Names == {"Ann"}
Salts == {"s1"}
JWT_SECRET == "server-secret"   \* process.env.JWT_SECRET
OtherKey == "attacker-key"      \* any key that is not the process secret

NoId == 0                       \* no id
BadId == -1                     \* a string that does not cast to an ObjectId

\* String.prototype.toLowerCase on the e-mail addresses of the model
toLowerCase(s) == IF s = "A@x.com" THEN "a@x.com" ELSE s

\* JavaScript truthiness of a string-valued body field: !x
Falsy(x) == x = Undef \/ x = ""

\* mongoose `required: true` on a String path
Required(x) == x # Undef /\ x # ""

----------------------------------------------------------------------------
(* bcryptjs *)

NoPassword == [hashed |-> FALSE, salt |-> Undef, text |-> Undef]

\* bcrypt.hash(plaintext, salt): the digest embeds the salt
bcryptHash(plaintext, salt) == [hashed |-> TRUE, salt |-> salt, text |-> plaintext]

\* the password field of a document that holds the plaintext p
Plain(p) == [hashed |-> FALSE, salt |-> Undef, text |-> p]

\* the string a password field holds: the plaintext, or the digest's encoding
FieldText(field) == IF field.hashed THEN "$2a$10$" ELSE field.text

\* bcrypt.compare(s, hash) rejects with "Illegal arguments" unless s is a string
bcryptCompareThrows(s) == s = Undef

\* a comparison of the plaintext with the stored field itself
plainCompare(s, hash) == ~hash.hashed /\ hash.text = s

\* bcrypt.compare(s, hash): re-hash s with the salt embedded in hash
bcryptCompare(s, hash) == hash.hashed /\ bcryptHash(s, hash.salt) = hash

----------------------------------------------------------------------------
(* jsonwebtoken *)

NoToken == [form |-> "none", id |-> NoId, iat |-> 0, exp |-> 0,
            sig |-> [id |-> NoId, iat |-> 0, exp |-> 0, key |-> Undef]]

\* the HMAC of a payload under a key
HS256(id, iat, exp, key) == [id |-> id, iat |-> iat, exp |-> exp, key |-> key]

\* jwt.sign(payload, secret, { expiresIn }) at time t
jwtSign(id, secretOrPrivateKey, expiresIn, t) ==
  [form |-> "jwt", id |-> id, iat |-> t, exp |-> t + expiresIn,
   sig |-> HS256(id, t, t + expiresIn, secretOrPrivateKey)]

\* jwt.sign throws 'secretOrPrivateKey must have a value' without a key
jwtSignThrows(secretOrPrivateKey) == secretOrPrivateKey = Undef

\* jwt.verify with the expiry instant itself still accepted
jwtVerifyLate(token, secretOrPublicKey, t) ==
  IF token.form # "jwt" THEN "jwt malformed"
  ELSE IF secretOrPublicKey = Undef THEN "secret or public key must be provided"
  ELSE IF token.sig # HS256(token.id, token.iat, token.exp, secretOrPublicKey)
       THEN "invalid signature"
  ELSE IF t > token.exp THEN "jwt expired"
  ELSE "ok"

\* jwt.verify(token, secret) at time t: "ok" or the error it throws
jwtVerify(token, secretOrPublicKey, t) ==
  IF token.form # "jwt" THEN "jwt malformed"
  ELSE IF secretOrPublicKey = Undef THEN "secret or public key must be provided"
  ELSE IF token.sig # HS256(token.id, token.iat, token.exp, secretOrPublicKey)
       THEN "invalid signature"
  ELSE IF t >= token.exp THEN "jwt expired"
  ELSE "ok"

----------------------------------------------------------------------------
(* Requests and responses *)

NoUser == [id |-> NoId, name |-> Undef, email |-> Undef, password |-> NoPassword]
NoTask == [id |-> NoId, userId |-> NoId, title |-> Undef, creator |-> NoId]
NoBody == [title |-> Undef, userId |-> NoId]
NoHeader == [kind |-> "none", token |-> NoToken]

\* a request: the route, the Authorization header, the JSON body, the :id parameter
Request(op, header, email, password, name, id, body) ==
  [op |-> op, header |-> header, email |-> email, password |-> password,
   name |-> name, id |-> id, body |-> body]

NoRequest == Request("none", NoHeader, Undef, Undef, Undef, NoId, NoBody)

\* a response: the status and the fields of the JSON body
Response(status, success, message, error, token, user, task, list) ==
  [status |-> status, success |-> success, message |-> message, error |-> error,
   token |-> token, user |-> user, task |-> task, list |-> list]

NoResponse == Response(0, Undef, Undef, Undef, NoToken, NoUser, NoTask, {})

\* res.status(s).json({ success: false, message }) / res.status(s).json({ message })
Failure(g, status, message) ==
  Response(status, IF g = "backend" THEN "false" ELSE Undef, message, Undef,
           NoToken, NoUser, NoTask, {})

----------------------------------------------------------------------------
(* State *)

VARIABLES
  guide,       \* the guide the server was built from
  secret,      \* process.env.JWT_SECRET: the signing secret, Undef when absent
  listening,   \* the server called app.listen
  now,         \* the clock
  users,       \* the users collection
  tasks,       \* the tasks collection
  created,     \* number of task documents ever inserted
  registered,  \* the register bodies that created a principal, with its id
  held,        \* held[c]: the token client c got with its last successful register or login
  inflight,    \* inflight[c]: the handler of c's request that awaits its next store operation
  out,         \* the request completed last and its response, as it is on the wire
  localStorage,  \* the browser's localStorage item 'token'
  authState,   \* the state of the browser's authSlice
  taskState,   \* the state of the browser's taskSlice
  call,        \* call[k]: the k-th call of a useTasks function that awaits its response
  rejected     \* history: the promise of some API call of the browser was rejected

\* the variables of the browser
browser == <<localStorage, authState, taskState, call, rejected>>

vars == <<guide, secret, listening, now, users, tasks, created, registered, held, inflight, out,
          browser>>

Idle == [pc |-> "idle", req |-> NoRequest, principal |-> NoId]

\* a handler suspended before the store operation pc: it keeps the request and
\* the principal the middleware attached
Awaiting(pc, req, principal) == [pc |-> pc, req |-> req, principal |-> principal]

\* the record of a completed request: who sent it, the request, the principal
\* the middleware attached, and the response
Completed(c, req, principal, res) ==
  [client |-> c, req |-> req, principal |-> principal, res |-> res]

\* authSlice initialState, read from localStorage when the page loads
authInitialState(stored) ==
  [user |-> NoUser, token |-> stored, isAuthenticated |-> stored # NoToken,
   loading |-> FALSE, error |-> Undef]

\* taskSlice initialState; tasks is the array state.tasks, and defined tells
\* whether state.tasks is an array at all
taskInitialState == [tasks |-> <<>>, defined |-> TRUE, loading |-> FALSE]

\* no call of a useTasks function is in progress in this slot
NoCall ==
  [pc |-> "idle", op |-> "none", header |-> NoHeader, id |-> NoId, body |-> NoBody,
   res |-> NoResponse]

\* a browser that holds no token and shows no page
BrowserClosed ==
  /\ localStorage = NoToken
  /\ authState = authInitialState(NoToken)
  /\ taskState = taskInitialState
  /\ call = [k \in Clients |-> NoCall]
  /\ rejected = FALSE

Init ==
  /\ guide \in Guides
  /\ secret = JWT_SECRET
  /\ listening = TRUE
  /\ now = 0
  /\ users = {}
  /\ tasks = {}
  /\ created = 0
  /\ registered = {}
  /\ held = [c \in Clients |-> NoToken]
  /\ inflight = [c \in Clients |-> Idle]
  /\ out = Completed(0, NoRequest, NoId, NoResponse)
  /\ BrowserClosed

\* the request is answered: nothing is left in flight for c
Reply(c, req, principal, res) ==
  /\ out' = Completed(c, req, principal, res)
  /\ inflight' = [inflight EXCEPT ![c] = Idle]

\* the handler of c is suspended before its next store operation
Suspend(c, pc, req, principal) ==
  /\ inflight' = [inflight EXCEPT ![c] = Awaiting(pc, req, principal)]
  /\ UNCHANGED out

\* generateToken(id) of the auth controllers, called at time t
generateToken(id, t) == jwtSign(id, secret, JWT_EXPIRE, t)

----------------------------------------------------------------------------
(* server.js *)

\* the process starts: the routes are mounted and app.listen is called; neither
\* guide reads process.env.JWT_SECRET before a token is signed or verified
StartServer ==
  /\ ~listening
  /\ listening' = TRUE
  /\ UNCHANGED <<browser, guide, secret, now, users, tasks, created, registered, held,
               inflight, out>>

----------------------------------------------------------------------------
(* The users collection *)

\* the mongoose cast of a value for the path `email`: the backend guide's schema
\* declares lowercase: true, whose setter runs on documents and on query filters
castEmail(g, email) ==
  IF g = "backend" /\ email # Undef THEN toLowerCase(email) ELSE email

\* User.findOne with a filter on another path than email: it matches no document
UserFindOneWrongPath(g, coll, email) ==
  IF \E u \in coll : u.name = castEmail(g, email)
  THEN CHOOSE u \in coll : u.name = castEmail(g, email)
  ELSE NoUser

\* User.findOne({ email }): the stored document, or NoUser for null
UserFindOne(g, coll, email) ==
  IF \E u \in coll : u.email = castEmail(g, email)
  THEN CHOOSE u \in coll : u.email = castEmail(g, email)
  ELSE NoUser

\* the ObjectId the store gives the next user document
NewUserId(coll) == Cardinality(coll) + 1

\* a pre('save') hook without the isModified guard: it hashes on every save
preSaveAlways(doc, isModifiedPassword, salt) ==
  [doc EXCEPT !.password = bcryptHash(FieldText(@), salt)]

\* userSchema.pre('save'): hash the password field unless it is unmodified
preSave(doc, isModifiedPassword, salt) ==
  IF ~isModifiedPassword THEN doc
  ELSE [doc EXCEPT !.password = bcryptHash(FieldText(@), salt)]

\* the outcome of saving a new User({ email, password, name }): schema validation,
\* then the pre('save') hook (every path of a new document is modified), then
\* the insert under the unique index on email
UserSave(g, coll, email, password, name, salt) ==
  IF ~(Required(name) /\ Required(email) /\ Required(password))
  THEN [error |-> "User validation failed", doc |-> NoUser]
  ELSE IF \E u \in coll : u.email = castEmail(g, email)
  THEN [error |-> "E11000 duplicate key error", doc |-> NoUser]
  ELSE [error |-> "none",
        doc |-> preSave([id |-> NewUserId(coll), name |-> name,
                         email |-> castEmail(g, email), password |-> Plain(password)],
                        TRUE, salt)]

\* the `user` field of a register response
RegisterUserView(g, doc, email, name) ==
  IF g = "backend" THEN doc
  ELSE [id |-> doc.id, name |-> name, email |-> email, password |-> NoPassword]

\* the `user` field of a login response
LoginUserView(g, doc) ==
  IF g = "backend" THEN doc
  ELSE [id |-> doc.id, name |-> doc.name, email |-> doc.email, password |-> NoPassword]

\* res.status(s).json({ success: true, user, token }) / res.status(s).json({ token, user })
AuthSuccess(g, status, user, token) ==
  Response(status, IF g = "backend" THEN "true" ELSE Undef, Undef, Undef,
           token, user, NoTask, {})

----------------------------------------------------------------------------
(* register *)

EmailInputs == Emails \cup {Undef}
PasswordInputs == Passwords \cup {"", Undef}

\* the bodies of register requests: every complete one, and one per missing field
RegisterBodies ==
  [email : Emails, password : Passwords, name : Names]
    \cup {[email |-> Undef, password |-> "p1", name |-> "Ann"],
          [email |-> "a@x.com", password |-> Undef, name |-> "Ann"],
          [email |-> "b@x.com", password |-> "p1", name |-> Undef]}

RegisterRequest(b) ==
  Request("register", NoHeader, b.email, b.password, b.name, NoId, NoBody)

\* register up to and including User.findOne({ email })
RegisterFindOne(c, b) ==
  /\ listening
  /\ inflight[c].pc = "idle"
  /\ LET req == RegisterRequest(b)
         user == UserFindOne(guide, users, b.email)
     IN IF user # NoUser
        THEN Reply(c, req, NoId, Failure(guide, 400, "User already exists"))
        ELSE /\ Cardinality(users) < MaxUsers
             /\ Suspend(c, "create", req, NoId)
  /\ UNCHANGED <<browser, guide, secret, listening, now, users, tasks, created, registered, held>>

\* register from User.create / user.save() to the response
RegisterCreate(c, salt) ==
  /\ inflight[c].pc = "create"
  /\ LET req == inflight[c].req
         saved == UserSave(guide, users, req.email, req.password, req.name, salt)
         token == generateToken(saved.doc.id, now)
     IN IF saved.error # "none"
        THEN /\ Reply(c, req, NoId, Failure(guide, 500, saved.error))
             /\ UNCHANGED <<users, registered, held>>
        ELSE /\ Cardinality(users) < MaxUsers
             /\ users' = users \cup {saved.doc}
             /\ registered' = registered \cup
                  {[id |-> saved.doc.id, email |-> req.email, password |-> req.password]}
             /\ IF jwtSignThrows(secret)
                THEN /\ Reply(c, req, NoId,
                              Failure(guide, 500, "secretOrPrivateKey must have a value"))
                     /\ UNCHANGED held
                ELSE /\ held' = [held EXCEPT ![c] = token]
                     /\ Reply(c, req, NoId,
                              AuthSuccess(guide, 201,
                                          RegisterUserView(guide, saved.doc, req.email, req.name),
                                          token))
  /\ UNCHANGED <<browser, guide, secret, listening, now, tasks, created>>

----------------------------------------------------------------------------
(* login *)

LoginRequest(email, password) ==
  Request("login", NoHeader, email, password, Undef, NoId, NoBody)

\* the response of login(email, password) against the users collection at time t
LoginResponse(g, coll, email, password, t) ==
  LET user == UserFindOne(g, coll, email)
  IN IF g = "backend" /\ (Falsy(email) \/ Falsy(password))
     THEN Failure(g, 400, "Please provide email and password")
     ELSE IF user = NoUser THEN Failure(g, 401, "Invalid credentials")
     ELSE IF bcryptCompareThrows(password)
          THEN Failure(g, 500, "Illegal arguments: undefined, string")
     ELSE IF ~bcryptCompare(password, user.password)
          THEN Failure(g, 401, "Invalid credentials")
     ELSE IF jwtSignThrows(secret)
          THEN Failure(g, 500, "secretOrPrivateKey must have a value")
     ELSE AuthSuccess(g, 200, LoginUserView(g, user), generateToken(user.id, t))

Login(c, email, password) ==
  /\ listening
  /\ inflight[c].pc = "idle"
  /\ LET res == LoginResponse(guide, users, email, password, now)
     IN /\ Reply(c, LoginRequest(email, password), NoId, res)
        /\ held' = [held EXCEPT ![c] = IF res.status = 200 THEN res.token ELSE @]
  /\ UNCHANGED <<browser, guide, secret, listening, now, users, tasks, created, registered>>

----------------------------------------------------------------------------
(* The auth middleware: protect (backend guide), authMiddleware (build guide) *)

MalformedToken == [NoToken EXCEPT !.form = "malformed"]   \* not three base64 segments
EmptyToken == [NoToken EXCEPT !.form = "empty"]           \* "Bearer " and nothing after it

Bearer(token) == [kind |-> "bearer", token |-> token]
SchemeOnly == [kind |-> "scheme", token |-> NoToken]      \* "Bearer"

\* req.headers.authorization?.split(' ')[1]
HeaderToken(header) == IF header.kind = "bearer" THEN header.token ELSE NoToken

\* !token
TokenMissing(token) == token.form = "none" \/ token.form = "empty"

\* res.status(401).json({ error }) / res.status(401).json({ message })
Unauthorized(g, backendError, buildMessage) ==
  IF g = "backend"
  THEN Response(401, Undef, Undef, backendError, NoToken, NoUser, NoTask, {})
  ELSE Response(401, Undef, buildMessage, Undef, NoToken, NoUser, NoTask, {})

\* a middleware that tells the client when the token has expired
authMiddlewareTellsExpiry(g, header, t) ==
  LET token == HeaderToken(header)
  IN IF TokenMissing(token)
     THEN [next |-> FALSE, verified |-> FALSE, principal |-> NoId,
           res |-> Unauthorized(g, "Not authorized to access this route",
                                "No token provided")]
     ELSE IF jwtVerify(token, secret, t) = "jwt expired"
     THEN [next |-> FALSE, verified |-> TRUE, principal |-> NoId,
           res |-> Unauthorized(g, "Token expired", "Token expired")]
     ELSE IF jwtVerify(token, secret, t) # "ok"
     THEN [next |-> FALSE, verified |-> TRUE, principal |-> NoId,
           res |-> Unauthorized(g, "Token is invalid", "Invalid token")]
     ELSE [next |-> TRUE, verified |-> TRUE, principal |-> token.id, res |-> NoResponse]

\* a middleware that lets a request without a token through to the handler
authMiddlewareOptional(g, header, t) ==
  LET token == HeaderToken(header)
  IN IF TokenMissing(token)
     THEN [next |-> TRUE, verified |-> FALSE, principal |-> NoId, res |-> NoResponse]
     ELSE IF jwtVerify(token, secret, t) # "ok"
     THEN [next |-> FALSE, verified |-> TRUE, principal |-> NoId,
           res |-> Unauthorized(g, "Token is invalid", "Invalid token")]
     ELSE [next |-> TRUE, verified |-> TRUE, principal |-> token.id, res |-> NoResponse]

\* a middleware that keeps the principal in a variable of the module, which
\* holds the principal of the request that completed last
authMiddlewareShared(g, header, t) ==
  LET token == HeaderToken(header)
  IN IF TokenMissing(token)
     THEN [next |-> FALSE, verified |-> FALSE, principal |-> NoId,
           res |-> Unauthorized(g, "Not authorized to access this route",
                                "No token provided")]
     ELSE IF jwtVerify(token, secret, t) # "ok"
     THEN [next |-> FALSE, verified |-> TRUE, principal |-> NoId,
           res |-> Unauthorized(g, "Token is invalid", "Invalid token")]
     ELSE [next |-> TRUE, verified |-> TRUE,
           principal |-> IF out.principal # NoId THEN out.principal ELSE token.id,
           res |-> NoResponse]

\* a middleware that looks the token's principal up in the users collection
\* and rejects the request when it is not there
authMiddlewareFindsUser(g, header, t) ==
  LET token == HeaderToken(header)
  IN IF TokenMissing(token)
     THEN [next |-> FALSE, verified |-> FALSE, principal |-> NoId,
           res |-> Unauthorized(g, "Not authorized to access this route",
                                "No token provided")]
     ELSE IF jwtVerify(token, secret, t) # "ok" \/ ~\E u \in users : u.id = token.id
     THEN [next |-> FALSE, verified |-> TRUE, principal |-> NoId,
           res |-> Unauthorized(g, "Token is invalid", "Invalid token")]
     ELSE [next |-> TRUE, verified |-> TRUE, principal |-> token.id, res |-> NoResponse]

\* the middleware on a request at time t: whether next() is called, whether
\* jwt.verify was called, the principal id it attaches (req.user.id /
\* req.userId), and the response it sends otherwise
authMiddleware(g, header, t) ==
  LET token == HeaderToken(header)
  IN IF TokenMissing(token)
     THEN [next |-> FALSE, verified |-> FALSE, principal |-> NoId,
           res |-> Unauthorized(g, "Not authorized to access this route",
                                "No token provided")]
     ELSE IF jwtVerify(token, secret, t) # "ok"
     THEN [next |-> FALSE, verified |-> TRUE, principal |-> NoId,
           res |-> Unauthorized(g, "Token is invalid", "Invalid token")]
     ELSE [next |-> TRUE, verified |-> TRUE, principal |-> token.id, res |-> NoResponse]

\* what a client can make of a token without the process secret: another
\* principal's id or a later expiry under the old signature, or its own signature
Tampered(token) ==
  {[token EXCEPT !.id = i] : i \in (1..MaxUsers) \ {token.id}}
    \cup {[token EXCEPT !.exp = @ + MaxTime]}
    \cup {jwtSign(token.id, OtherKey, token.exp - token.iat, token.iat)}

\* the Authorization headers client c can send: none, a scheme without a token,
\* an empty or malformed token, the token it holds, and what it can make of that
Headers(c) ==
  {NoHeader, SchemeOnly, Bearer(EmptyToken), Bearer(MalformedToken)}
    \cup (IF held[c] = NoToken THEN {}
          ELSE {Bearer(held[c])} \cup {Bearer(x) : x \in Tampered(held[c])})

\* the headers of the logged-in clients
HeldHeaders == {Bearer(held[c]) : c \in {k \in Clients : held[k] # NoToken}}

----------------------------------------------------------------------------
(* The tasks collection *)

TitleInputs == {"t", Undef}                \* title of a new task
TaskIdParams == (1..MaxTasks) \cup {BadId}
CreateBodies ==
  [title : TitleInputs, userId : {NoId}] \cup [title : {"t"}, userId : 1..MaxUsers]
GateBodies == {[title |-> "t", userId |-> NoId]}    \* a body with a title alone
UpdateBodies ==
  {[title |-> "t2", userId |-> NoId]} \cup [title : {Undef}, userId : 1..MaxUsers]

\* the cast of the :id parameter to ObjectId throws CastError
CastFails(id) == id = BadId

\* Task.findById(id): the document, or NoTask for null
TaskFindById(coll, id) ==
  IF \E d \in coll : d.id = id THEN CHOOSE d \in coll : d.id = id ELSE NoTask

\* the document matching the filter { _id: id, userId }, or NoTask for null
TaskFindOwned(coll, id, userId) ==
  IF \E d \in coll : d.id = id /\ d.userId = userId
  THEN CHOOSE d \in coll : d.id = id /\ d.userId = userId
  ELSE NoTask

\* a find without a filter: every document of the collection
TaskFindAll(coll, userId) == coll

\* Task.find({ userId }): the documents whose userId is the given id
TaskFind(coll, userId) == {d \in coll : d.userId = userId}

\* the update document req.body applied to a task ($set of the fields it carries)
ApplyBody(doc, body) ==
  [doc EXCEPT !.title = IF body.title # Undef THEN body.title ELSE @,
              !.userId = IF body.userId # NoId THEN body.userId ELSE @]

\* the collection after findByIdAndUpdate / findOneAndUpdate updated doc
Replace(coll, doc, body) == (coll \ {doc}) \cup {ApplyBody(doc, body)}

\* { userId, ...req.body }: the principal's id, then the body's fields over it
NewTaskBodyWins(id, body, principal) ==
  [id |-> id, userId |-> IF body.userId # NoId THEN body.userId ELSE principal,
   title |-> body.title, creator |-> principal]

\* { ...req.body, userId }: the body's fields, then the principal's id over them;
\* creator records the principal for the ownership claims
NewTask(id, body, principal) ==
  [[id |-> id, userId |-> body.userId, title |-> body.title, creator |-> principal]
     EXCEPT !.userId = principal]

\* res.status(s).json({ success: true, task }) / res.status(s).json(task)
TaskSuccess(g, status, task) ==
  Response(status, IF g = "backend" THEN "true" ELSE Undef, Undef, Undef,
           NoToken, NoUser, task, {})

\* res.status(200).json({ success: true, tasks }) / res.json(tasks)
ListSuccess(g, list) ==
  Response(200, IF g = "backend" THEN "true" ELSE Undef, Undef, Undef,
           NoToken, NoUser, NoTask, list)

\* res.status(200).json({ success: true, message }) / res.json({ message })
MessageSuccess(g, message) ==
  Response(200, IF g = "backend" THEN "true" ELSE Undef, message, Undef,
           NoToken, NoUser, NoTask, {})

TaskRequest(op, header, id, body) == Request(op, header, Undef, Undef, Undef, id, body)

\* a handler's step: the collection it leaves, and either the response it sends
\* (pc "idle") or the store operation it is suspended before
Step(coll, pc, res) == [tasks |-> coll, pc |-> pc, res |-> res]

\* a catch block that swallows the error and reports success
swallowError(g, coll, message) == Step(coll, "idle", MessageSuccess(g, message))

\* catch (error) { res.status(500).json({ message: error.message }) } of a task
\* handler: the error's message is the response, the collection is as it was
catchError(g, coll, message) == Step(coll, "idle", Failure(g, 500, message))

\* the message of an error the store raises by itself (connection lost, timeout)
StoreError == "MongoNetworkError"

\* a deleteTask whose filter names the owner alone: deleteMany({ userId })
deleteTaskOfOwner(g, coll, id, principal) ==
  LET owned == TaskFindOwned(coll, id, principal)
      found == TaskFindById(coll, id)
  IN IF CastFails(id)
     THEN catchError(g, coll, "Cast to ObjectId failed")
     ELSE IF g = "build"
     THEN IF owned = NoTask
          THEN Step(coll, "idle", Failure(g, 404, "Task not found"))
          ELSE Step({d \in coll : d.userId # principal}, "idle",
                    MessageSuccess(g, "Task deleted"))
     ELSE IF found = NoTask \/ found.userId # principal
          THEN Step(coll, "idle", Failure(g, 404, "Task not found"))
          ELSE Step(coll, "remove", NoResponse)

\* updateTask without the ownership condition: the filter and the check name
\* the task id alone
updateTaskAnyOwner(g, coll, id, body, principal) ==
  LET found == TaskFindById(coll, id)
  IN IF CastFails(id)
     THEN catchError(g, coll, "Cast to ObjectId failed")
     ELSE IF found = NoTask
     THEN Step(coll, "idle", Failure(g, 404, "Task not found"))
     ELSE IF g = "build"
     THEN Step(Replace(coll, found, body), "idle",
               TaskSuccess(g, 200, ApplyBody(found, body)))
     ELSE Step(coll, "write", NoResponse)

\* updateTask for an authenticated principal, up to and including its first
\* store operation:
\*   build guide:   Task.findOneAndUpdate({ _id, userId }, req.body, { new: true })
\*   backend guide: Task.findById(req.params.id) and the ownership check
updateTask(g, coll, id, body, principal) ==
  LET owned == TaskFindOwned(coll, id, principal)
      found == TaskFindById(coll, id)
  IN IF CastFails(id)
     THEN catchError(g, coll, "Cast to ObjectId failed")
     ELSE IF g = "build"
     THEN IF owned = NoTask
          THEN Step(coll, "idle", Failure(g, 404, "Task not found"))
          ELSE Step(Replace(coll, owned, body), "idle",
                    TaskSuccess(g, 200, ApplyBody(owned, body)))
     ELSE IF found = NoTask \/ found.userId # principal
          THEN Step(coll, "idle", Failure(g, 404, "Task not found"))
          ELSE Step(coll, "write", NoResponse)

\* deleteTask for an authenticated principal, up to and including its first
\* store operation:
\*   build guide:   Task.findOneAndDelete({ _id, userId })
\*   backend guide: Task.findById(req.params.id) and the ownership check
deleteTask(g, coll, id, principal) ==
  LET owned == TaskFindOwned(coll, id, principal)
      found == TaskFindById(coll, id)
  IN IF CastFails(id)
     THEN catchError(g, coll, "Cast to ObjectId failed")
     ELSE IF g = "build"
     THEN IF owned = NoTask
          THEN Step(coll, "idle", Failure(g, 404, "Task not found"))
          ELSE Step(coll \ {owned}, "idle", MessageSuccess(g, "Task deleted"))
     ELSE IF found = NoTask \/ found.userId # principal
          THEN Step(coll, "idle", Failure(g, 404, "Task not found"))
          ELSE Step(coll, "remove", NoResponse)

----------------------------------------------------------------------------
(* The task routes: the middleware, then the handler *)

\* GET /api/tasks: Task.find({ userId })
GetTasks(c, header) ==
  /\ listening
  /\ inflight[c].pc = "idle"
  /\ LET req == TaskRequest("getTasks", header, NoId, NoBody)
         auth == authMiddleware(guide, header, now)
     IN IF ~auth.next
        THEN Reply(c, req, NoId, auth.res)
        ELSE Reply(c, req, auth.principal,
                   ListSuccess(guide, TaskFind(tasks, auth.principal)))
  /\ UNCHANGED <<browser, guide, secret, listening, now, users, tasks, created, registered, held>>

\* POST /api/tasks: the save of the new task (title is required)
CreateTask(c, header, body) ==
  /\ listening
  /\ inflight[c].pc = "idle"
  /\ LET req == TaskRequest("createTask", header, NoId, body)
         auth == authMiddleware(guide, header, now)
         task == NewTask(created + 1, body, auth.principal)
     IN IF ~auth.next
        THEN /\ Reply(c, req, NoId, auth.res)
             /\ UNCHANGED <<tasks, created>>
        ELSE IF ~Required(task.title)
        THEN /\ Reply(c, req, auth.principal,
                      catchError(guide, tasks, "Task validation failed").res)
             /\ UNCHANGED <<tasks, created>>
        ELSE /\ created < MaxTasks
             /\ tasks' = tasks \cup {task}
             /\ created' = created + 1
             /\ Reply(c, req, auth.principal, TaskSuccess(guide, 201, task))
  /\ UNCHANGED <<browser, guide, secret, listening, now, users, registered, held>>

\* PUT /api/tasks/:id up to and including the first store operation
UpdateTask(c, header, id, body) ==
  /\ listening
  /\ inflight[c].pc = "idle"
  /\ LET req == TaskRequest("updateTask", header, id, body)
         auth == authMiddleware(guide, header, now)
         step == updateTask(guide, tasks, id, body, auth.principal)
     IN IF ~auth.next
        THEN Reply(c, req, NoId, auth.res) /\ UNCHANGED tasks
        ELSE /\ tasks' = step.tasks
             /\ IF step.pc = "idle"
                THEN Reply(c, req, auth.principal, step.res)
                ELSE Suspend(c, step.pc, req, auth.principal)
  /\ UNCHANGED <<browser, guide, secret, listening, now, users, created, registered, held>>

\* backend guide: Task.findByIdAndUpdate(req.params.id, req.body, { new: true })
\* and the 200 response with whatever it returned
UpdateTaskWrite(c) ==
  /\ inflight[c].pc = "write"
  /\ LET req == inflight[c].req
         found == TaskFindById(tasks, req.id)
     IN IF found = NoTask
        THEN /\ Reply(c, req, inflight[c].principal, TaskSuccess(guide, 200, NoTask))
             /\ UNCHANGED tasks
        ELSE /\ tasks' = Replace(tasks, found, req.body)
             /\ Reply(c, req, inflight[c].principal,
                      TaskSuccess(guide, 200, ApplyBody(found, req.body)))
  /\ UNCHANGED <<browser, guide, secret, listening, now, users, created, registered, held>>

\* DELETE /api/tasks/:id up to and including the first store operation
DeleteTask(c, header, id) ==
  /\ listening
  /\ inflight[c].pc = "idle"
  /\ LET req == TaskRequest("deleteTask", header, id, NoBody)
         auth == authMiddleware(guide, header, now)
         step == deleteTask(guide, tasks, id, auth.principal)
     IN IF ~auth.next
        THEN Reply(c, req, NoId, auth.res) /\ UNCHANGED tasks
        ELSE /\ tasks' = step.tasks
             /\ IF step.pc = "idle"
                THEN Reply(c, req, auth.principal, step.res)
                ELSE Suspend(c, step.pc, req, auth.principal)
  /\ UNCHANGED <<browser, guide, secret, listening, now, users, created, registered, held>>

\* backend guide: Task.findByIdAndDelete(req.params.id) and the 200 response
DeleteTaskRemove(c) ==
  /\ inflight[c].pc = "remove"
  /\ LET req == inflight[c].req
     IN /\ tasks' = {d \in tasks : d.id # req.id}
        /\ Reply(c, req, inflight[c].principal, MessageSuccess(guide, "Task deleted"))
  /\ UNCHANGED <<browser, guide, secret, listening, now, users, created, registered, held>>

\* the first store operation of a task handler rejects: the handler's catch
\* answers 500 with the error's message
TaskStoreFault(c, header, op, id, body) ==
  /\ listening
  /\ inflight[c].pc = "idle"
  /\ LET req == TaskRequest(op, header, id, body)
         auth == authMiddleware(guide, header, now)
         step == catchError(guide, tasks, StoreError)
     IN /\ auth.next
        /\ tasks' = step.tasks
        /\ Reply(c, req, auth.principal, step.res)
  /\ UNCHANGED <<browser, guide, secret, listening, now, users, created, registered, held>>

\* backend guide: the second store operation of updateTask or deleteTask rejects
TaskStoreFaultLate(c) ==
  /\ inflight[c].pc \in {"write", "remove"}
  /\ LET step == catchError(guide, tasks, StoreError)
     IN /\ tasks' = step.tasks
        /\ Reply(c, inflight[c].req, inflight[c].principal, step.res)
  /\ UNCHANGED <<browser, guide, secret, listening, now, users, created, registered, held>>

----------------------------------------------------------------------------
(* logout *)

\* a logout that revokes the tokens issued so far by changing the signing secret
LogoutRotatesSecret(c, header) ==
  /\ listening
  /\ inflight[c].pc = "idle"
  /\ guide = "backend"
  /\ secret' = OtherKey
  /\ Reply(c, TaskRequest("logout", header, NoId, NoBody), NoId,
           MessageSuccess(guide, "Logged out successfully"))
  /\ UNCHANGED <<browser, guide, listening, now, users, tasks, created, registered, held>>

\* POST /api/auth/logout: the backend guide's route has no middleware and its
\* handler only sends the response; the build guide has no such route, and
\* express answers 404
Logout(c, header) ==
  /\ listening
  /\ inflight[c].pc = "idle"
  /\ Reply(c, TaskRequest("logout", header, NoId, NoBody), NoId,
           IF guide = "backend" THEN MessageSuccess(guide, "Logged out successfully")
           ELSE Response(404, Undef, Undef, Undef, NoToken, NoUser, NoTask, {}))
  /\ UNCHANGED <<browser, guide, secret, listening, now, users, tasks, created, registered,
                 held>>

----------------------------------------------------------------------------
(* The clock *)

Tick ==
  /\ now < MaxTime
  /\ now' = now + 1
  /\ UNCHANGED <<browser, guide, secret, listening, users, tasks, created, registered, held, inflight, out>>

----------------------------------------------------------------------------
(* The browser: authSlice, taskSlice, api.js, useTasks *)

Browser == 1     \* the client slot of the browser

\* api.interceptors.request: the Authorization header for the stored token
requestInterceptor(stored) == IF stored # NoToken THEN Bearer(stored) ELSE NoHeader

\* the authSlice reducer logout (its localStorage.removeItem is in UserLogout)
authLogout(state) ==
  [state EXCEPT !.user = NoUser, !.token = NoToken, !.isAuthenticated = FALSE]

\* the authSlice reducer loginStart
loginStart(state) == [state EXCEPT !.loading = TRUE, !.error = Undef]

\* a loginSuccess that leaves isAuthenticated as it is
loginSuccessKeepsFlag(state, payload) ==
  [state EXCEPT !.user = payload.user, !.token = payload.token, !.loading = FALSE]

\* the authSlice reducer loginSuccess (its localStorage.setItem is in
\* DispatchLoginSuccess)
loginSuccess(state, payload) ==
  [state EXCEPT !.user = payload.user, !.token = payload.token,
                !.isAuthenticated = TRUE, !.loading = FALSE]

\* the authSlice reducer loginFailure
loginFailure(state, payload) == [state EXCEPT !.error = payload, !.loading = FALSE]

\* the payloads of loginSuccess: the user and the token of a login response
LoginPayloads ==
  {[user |-> LoginUserView(guide, u), token |-> generateToken(u.id, now)] : u \in users}

\* the payloads of loginFailure
LoginErrors == {"Invalid credentials", "Network Error"}

\* dispatch(loginStart())
DispatchLoginStart ==
  /\ authState' = loginStart(authState)
  /\ UNCHANGED <<guide, secret, listening, now, users, tasks, created, registered, held,
                 inflight, out, localStorage, taskState, call, rejected>>

\* dispatch(loginSuccess({ user, token }))
DispatchLoginSuccess(payload) ==
  /\ authState' = loginSuccess(authState, payload)
  /\ localStorage' = payload.token
  /\ UNCHANGED <<guide, secret, listening, now, users, tasks, created, registered, held,
                 inflight, out, taskState, call, rejected>>

\* dispatch(loginFailure(message))
DispatchLoginFailure(payload) ==
  /\ authState' = loginFailure(authState, payload)
  /\ UNCHANGED <<guide, secret, listening, now, users, tasks, created, registered, held,
                 inflight, out, localStorage, taskState, call, rejected>>

\* an axios that resolves the promise for every status
ResolvesAlways(res) == TRUE

\* axios resolves the promise for a 2xx status and rejects it otherwise
Resolves(res) == res.status \in 200..299

\* the array of the tasks of a response body, in the order of insertion
RECURSIVE ListOf(_)
ListOf(S) ==
  IF S = {} THEN <<>>
  ELSE LET first == CHOOSE d \in S : \A e \in S : d.id <= e.id
       IN <<first>> \o ListOf(S \ {first})

\* taskService.getTasks and the reducer setTasks: state.tasks becomes
\* response.data.tasks, which is undefined when the body is the bare array of
\* the build guide
setTasks(state, g, res) ==
  [state EXCEPT !.tasks = IF g = "backend" THEN ListOf(res.list) ELSE <<>>,
                !.defined = (g = "backend")]

\* taskService.createTask and the reducer addTask: state.tasks.push of
\* response.data.task, which is undefined when the body is the bare task of
\* the build guide; push throws when state.tasks is no array
addTask(state, g, res) ==
  IF ~state.defined THEN state
  ELSE [state EXCEPT !.tasks = Append(@, IF g = "backend" THEN res.task ELSE NoTask)]

\* list.findIndex(t => t._id === id): the first index with that id, 0 for -1
findIndex(list, id) ==
  IF \E i \in 1..Len(list) : list[i].id = id
  THEN CHOOSE i \in 1..Len(list) :
         list[i].id = id /\ \A j \in 1..(i - 1) : list[j].id # id
  ELSE 0

\* taskService.updateTaskAPI and the reducer updateTask of the taskSlice:
\* the payload is response.data.task (undefined for the bare task of the build
\* guide, null when the backend guide's write found no task).  Reading _id of
\* a payload that is null or undefined, or findIndex of no array, throws, and
\* the state stays as it was; an empty array calls the callback for no element.
taskSliceUpdateTask(state, g, res) ==
  LET payload == IF g = "backend" THEN res.task ELSE NoTask
      index == findIndex(state.tasks, payload.id)
  IN IF ~state.defined \/ state.tasks = <<>> \/ payload = NoTask \/ index = 0
     THEN state
     ELSE [state EXCEPT !.tasks[index] = payload]

\* the reducer deleteTask of the taskSlice: state.tasks.filter(t => t._id !== id);
\* filter of no array, and reading _id of an undefined element, throw
taskSliceDeleteTask(state, id) ==
  IF ~state.defined \/ \E j \in 1..Len(state.tasks) : state.tasks[j] = NoTask
  THEN state
  ELSE [state EXCEPT !.tasks = SelectSeq(@, LAMBDA t : t.id # id)]

\* the browser sends the request of a useTasks function in call slot k and
\* awaits the response
Send(k, op, id, body) ==
  /\ call[k].pc = "idle"
  /\ call' = [call EXCEPT ![k] = [pc |-> "sent", op |-> op,
                                  header |-> requestInterceptor(localStorage),
                                  id |-> id, body |-> body, res |-> NoResponse]]

\* useTasks.fetchTasks up to the await: dispatch(setLoading(true)), getTasks()
FetchTasks(k) ==
  /\ Send(k, "getTasks", NoId, NoBody)
  /\ taskState' = [taskState EXCEPT !.loading = TRUE]
  /\ UNCHANGED <<guide, secret, listening, now, users, tasks, created, registered, held,
                 inflight, out, localStorage, authState, rejected>>

\* useTasks.handleAddTask up to the await: createTask(taskData)
HandleAddTask(k, taskData) ==
  /\ Send(k, "createTask", NoId, taskData)
  /\ UNCHANGED <<guide, secret, listening, now, users, tasks, created, registered, held,
                 inflight, out, localStorage, authState, taskState, rejected>>

\* useTasks.handleUpdateTask up to the await: updateTaskAPI(id, taskData)
HandleUpdateTask(k, id, taskData) ==
  /\ Send(k, "updateTask", id, taskData)
  /\ UNCHANGED <<guide, secret, listening, now, users, tasks, created, registered, held,
                 inflight, out, localStorage, authState, taskState, rejected>>

\* useTasks.handleDeleteTask up to the await: deleteTaskAPI(id)
HandleDeleteTask(k, id) ==
  /\ Send(k, "deleteTask", id, NoBody)
  /\ UNCHANGED <<guide, secret, listening, now, users, tasks, created, registered, held,
                 inflight, out, localStorage, authState, taskState, rejected>>

\* the server handles the GET or POST request the browser sent in slot k and
\* puts its response on the wire
BrowserServe(k) ==
  /\ call[k].pc = "sent"
  /\ out.client \notin Clients
  /\ \/ call[k].op = "getTasks" /\ GetTasks(k, call[k].header)
     \/ call[k].op = "createTask" /\ CreateTask(k, call[k].header, call[k].body)

\* the server runs the next store operation of the PUT or DELETE request the
\* browser sent in slot k, and puts the response on the wire when it is the last
BrowserServeChange(k) ==
  /\ call[k].pc = "sent"
  /\ out.client \notin Clients
  /\ \/ call[k].op = "updateTask"
          /\ UpdateTask(k, call[k].header, call[k].id, call[k].body)
     \/ call[k].op = "updateTask" /\ UpdateTaskWrite(k)
     \/ call[k].op = "deleteTask" /\ DeleteTask(k, call[k].header, call[k].id)
     \/ call[k].op = "deleteTask" /\ DeleteTaskRemove(k)

\* the response to the request of slot k reaches the browser, where the
\* continuation of the call is queued
Receive(k) ==
  /\ call[k].pc = "sent"
  /\ out.client = k
  /\ call' = [call EXCEPT ![k].pc = "answered", ![k].res = out.res]
  /\ out' = Completed(0, NoRequest, NoId, NoResponse)
  /\ UNCHANGED <<guide, secret, listening, now, users, tasks, created, registered, held,
                 inflight, localStorage, authState, taskState, rejected>>

\* the awaited promise of slot k settles and the function returns; a rejected
\* promise is caught and logged by every useTasks function
Return(k, op) ==
  /\ call[k].pc = "answered"
  /\ call[k].op = op
  /\ call' = [call EXCEPT ![k] = NoCall]
  /\ rejected' = (rejected \/ ~Resolves(call[k].res))
  /\ UNCHANGED <<guide, secret, listening, now, users, tasks, created, registered, held,
                 inflight, out, localStorage, authState>>

\* useTasks.fetchTasks from the await on: dispatch(setTasks(data)), or the
\* catch with console.error; then dispatch(setLoading(false))
FetchTasksSettle(k) ==
  /\ Return(k, "getTasks")
  /\ taskState' = [(IF Resolves(call[k].res) THEN setTasks(taskState, guide, call[k].res)
                    ELSE taskState) EXCEPT !.loading = FALSE]

\* useTasks.handleAddTask from the await on: dispatch(addTask(newTask)), or the
\* catch with console.error
HandleAddTaskSettle(k) ==
  /\ Return(k, "createTask")
  /\ taskState' = IF Resolves(call[k].res) THEN addTask(taskState, guide, call[k].res)
                  ELSE taskState

\* useTasks.handleUpdateTask from the await on: dispatch(updateTask(updated)),
\* or the catch with console.error
HandleUpdateTaskSettle(k) ==
  /\ Return(k, "updateTask")
  /\ taskState' = IF Resolves(call[k].res)
                  THEN taskSliceUpdateTask(taskState, guide, call[k].res)
                  ELSE taskState

\* useTasks.handleDeleteTask from the await on: dispatch(deleteTask(id)), or
\* the catch with console.error
HandleDeleteTaskSettle(k) ==
  /\ Return(k, "deleteTask")
  /\ taskState' = IF Resolves(call[k].res) THEN taskSliceDeleteTask(taskState, call[k].id)
                  ELSE taskState

\* the user logs out: dispatch(logout())
UserLogout ==
  /\ authState.isAuthenticated
  /\ authState' = authLogout(authState)
  /\ localStorage' = NoToken
  /\ UNCHANGED <<guide, secret, listening, now, users, tasks, created, registered, held,
                 inflight, out, taskState, call, rejected>>

----------------------------------------------------------------------------
(* Specifications *)

\* SpecRegister: clients register concurrently
RegisterStart == \E c \in Clients, b \in RegisterBodies : RegisterFindOne(c, b)
RegisterFinish == \E c \in Clients, s \in Salts : RegisterCreate(c, s)

NextRegister == RegisterStart \/ RegisterFinish

SpecRegister == Init /\ [][NextRegister]_vars

\* SpecAuth: one client registers, logs in and passes the auth gate, one request
\* after the other, while the clock runs
SignUp ==
  \/ \E b \in RegisterBodies : RegisterFindOne(1, b)
  \/ \E s \in Salts : RegisterCreate(1, s)
LogIn == \E e \in EmailInputs, p \in PasswordInputs : Login(1, e, p)
Authenticate == \E h \in Headers(1) : GetTasks(1, h)

NextAuth == SignUp \/ LogIn \/ Authenticate \/ Tick

SpecAuth == Init /\ [][NextAuth]_vars

\* a principal as register stores it
Principal(id, email) ==
  [id |-> id, name |-> "Ann", email |-> email, password |-> bcryptHash("p1", "s1")]

\* SpecTask starts where two principals have registered, the first client with
\* one and every other client with the other, and serves the task routes, one
\* request after the other, each with the token of a logged-in client
InitTask ==
  /\ guide \in Guides
  /\ secret = JWT_SECRET
  /\ listening = TRUE
  /\ now = 0
  /\ users = {Principal(1, "a@x.com"), Principal(2, "b@x.com")}
  /\ registered = {[id |-> u.id, email |-> u.email, password |-> "p1"] : u \in users}
  /\ tasks = {}
  /\ created = 0
  /\ held = [c \in Clients |-> generateToken(IF c = 1 THEN 1 ELSE 2, 0)]
  /\ inflight = [c \in Clients |-> Idle]
  /\ out = Completed(0, NoRequest, NoId, NoResponse)
  /\ BrowserClosed

Read == \E h \in HeldHeaders : GetTasks(1, h)
Create == \E h \in HeldHeaders, b \in CreateBodies : CreateTask(1, h, b)
Update ==
  \/ \E h \in HeldHeaders, i \in TaskIdParams, b \in UpdateBodies : UpdateTask(1, h, i, b)
  \/ UpdateTaskWrite(1)
Delete ==
  \/ \E h \in HeldHeaders, i \in TaskIdParams : DeleteTask(1, h, i)
  \/ DeleteTaskRemove(1)

NextTask == Read \/ Create \/ Update \/ Delete

SpecTask == InitTask /\ [][NextTask]_vars

\* SpecConfig: the process is started with or without JWT_SECRET in its
\* environment, and then one client registers, logs in and calls a task route
InitConfig ==
  /\ guide \in Guides
  /\ secret \in {JWT_SECRET, Undef}
  /\ listening = FALSE
  /\ now = 0
  /\ users = {}
  /\ tasks = {}
  /\ created = 0
  /\ registered = {}
  /\ held = [c \in Clients |-> NoToken]
  /\ inflight = [c \in Clients |-> Idle]
  /\ out = Completed(0, NoRequest, NoId, NoResponse)
  /\ BrowserClosed

NextConfig == StartServer \/ SignUp \/ LogIn \/ Authenticate

SpecConfig == InitConfig /\ [][NextConfig]_vars

\* SpecBrowser: the page is loaded in a browser whose localStorage holds the
\* token of the first principal, and the dashboard calls the task API while the
\* clock runs.  The server answers every request, the browser runs every
\* continuation and goes on fetching; the user need not log out.
InitBrowser ==
  /\ guide \in Guides
  /\ secret = JWT_SECRET
  /\ listening = TRUE
  /\ now = 0
  /\ users = {Principal(1, "a@x.com"), Principal(2, "b@x.com")}
  /\ registered = {[id |-> u.id, email |-> u.email, password |-> "p1"] : u \in users}
  /\ tasks = {}
  /\ created = 0
  /\ held = [c \in Clients |-> generateToken(IF c = 1 THEN 1 ELSE 2, 0)]
  /\ inflight = [c \in Clients |-> Idle]
  /\ out = Completed(0, NoRequest, NoId, NoResponse)
  /\ localStorage = held[Browser]
  /\ authState = authInitialState(localStorage)
  /\ taskState = taskInitialState
  /\ call = [k \in Clients |-> NoCall]
  /\ rejected = FALSE

Fetch == FetchTasks(Browser)
AddTask == \E b \in GateBodies : HandleAddTask(Browser, b)
Serve == BrowserServe(Browser)
Arrive == Receive(Browser)
Settle == FetchTasksSettle(Browser) \/ HandleAddTaskSettle(Browser)

NextBrowser == Fetch \/ AddTask \/ Serve \/ Arrive \/ Settle \/ UserLogout \/ Tick

SpecBrowser ==
  /\ InitBrowser
  /\ [][NextBrowser]_vars
  /\ WF_vars(Serve)
  /\ WF_vars(Arrive)
  /\ WF_vars(Settle)
  /\ WF_vars(Fetch)
  /\ WF_vars(Tick)

\* SpecGate: from the state of InitTask one client sends requests to the four
\* task routes with every header it can make, while the clock runs
GateRead == \E h \in Headers(1) : GetTasks(1, h)
GateCreate == \E h \in Headers(1), b \in GateBodies : CreateTask(1, h, b)
GateUpdate ==
  \/ \E h \in Headers(1), i \in TaskIdParams, b \in GateBodies : UpdateTask(1, h, i, b)
  \/ UpdateTaskWrite(1)
GateDelete ==
  \/ \E h \in Headers(1), i \in TaskIdParams : DeleteTask(1, h, i)
  \/ DeleteTaskRemove(1)

GateFault ==
  \/ \E h \in Headers(1) : TaskStoreFault(1, h, "getTasks", NoId, NoBody)
  \/ \E h \in Headers(1), b \in GateBodies : TaskStoreFault(1, h, "createTask", NoId, b)
  \/ \E h \in Headers(1), i \in 1..MaxTasks, b \in GateBodies :
       TaskStoreFault(1, h, "updateTask", i, b)
  \/ \E h \in Headers(1), i \in 1..MaxTasks : TaskStoreFault(1, h, "deleteTask", i, NoBody)
  \/ TaskStoreFaultLate(1)

NextGate == GateRead \/ GateCreate \/ GateUpdate \/ GateDelete \/ GateFault \/ Tick

SpecGate == InitTask /\ [][NextGate]_vars

\* SpecScope: from the state of InitTask every client sends requests to the task
\* routes with its own token, and the handlers of different clients interleave
\* at their store operations
OwnHeader(c) == Bearer(held[c])
ScopeRead == \E c \in Clients : GetTasks(c, OwnHeader(c))
ScopeCreate == \E c \in Clients, b \in GateBodies : CreateTask(c, OwnHeader(c), b)
ScopeUpdate ==
  \/ \E c \in Clients, i \in 1..MaxTasks, b \in GateBodies :
       UpdateTask(c, OwnHeader(c), i, b)
  \/ \E c \in Clients : UpdateTaskWrite(c)
ScopeDelete ==
  \/ \E c \in Clients, i \in 1..MaxTasks : DeleteTask(c, OwnHeader(c), i)
  \/ \E c \in Clients : DeleteTaskRemove(c)

NextScope == ScopeRead \/ ScopeCreate \/ ScopeUpdate \/ ScopeDelete

SpecScope == InitTask /\ [][NextScope]_vars

\* SpecSession: from the state of InitTask one client logs in, logs out and
\* calls a task route with every header it can make, while the clock runs
LogOut == \E h \in Headers(1) : Logout(1, h)

NextSession == LogIn \/ LogOut \/ Authenticate \/ Tick

SpecSession == InitTask /\ [][NextSession]_vars

\* SpecFrame: the requests of SpecTask, and logins between them
NextFrame == NextTask \/ LogIn

SpecFrame == InitTask /\ [][NextFrame]_vars

\* SpecStore: the requests of SpecGate against a database that holds both
\* principals, one of them or none: the tokens were issued before principals
\* were removed from the database
InitStore ==
  /\ guide \in Guides
  /\ secret = JWT_SECRET
  /\ listening = TRUE
  /\ now = 0
  /\ users \in SUBSET {Principal(1, "a@x.com"), Principal(2, "b@x.com")}
  /\ registered = {[id |-> u.id, email |-> u.email, password |-> "p1"] : u \in users}
  /\ tasks = {}
  /\ created = 0
  /\ held = [c \in Clients |-> generateToken(IF c = 1 THEN 1 ELSE 2, 0)]
  /\ inflight = [c \in Clients |-> Idle]
  /\ out = Completed(0, NoRequest, NoId, NoResponse)
  /\ BrowserClosed

NextStore == GateRead \/ GateCreate \/ GateUpdate \/ GateDelete \/ Tick

SpecStore == InitStore /\ [][NextStore]_vars

\* SpecAuthSlice: the page is loaded with or without a stored token, and the
\* four actions of the authSlice are dispatched in any order while the clock
\* runs
InitAuthSlice ==
  /\ guide \in Guides
  /\ secret = JWT_SECRET
  /\ listening = TRUE
  /\ now = 0
  /\ users = {Principal(1, "a@x.com"), Principal(2, "b@x.com")}
  /\ registered = {[id |-> u.id, email |-> u.email, password |-> "p1"] : u \in users}
  /\ tasks = {}
  /\ created = 0
  /\ held = [c \in Clients |-> generateToken(IF c = 1 THEN 1 ELSE 2, 0)]
  /\ inflight = [c \in Clients |-> Idle]
  /\ out = Completed(0, NoRequest, NoId, NoResponse)
  /\ localStorage \in {NoToken, held[Browser]}
  /\ authState = authInitialState(localStorage)
  /\ taskState = taskInitialState
  /\ call = [k \in Clients |-> NoCall]
  /\ rejected = FALSE

LoginSucceeds == \E payload \in LoginPayloads : DispatchLoginSuccess(payload)
LoginFails == \E payload \in LoginErrors : DispatchLoginFailure(payload)

NextAuthSlice == DispatchLoginStart \/ LoginSucceeds \/ LoginFails \/ UserLogout \/ Tick

SpecAuthSlice == InitAuthSlice /\ [][NextAuthSlice]_vars

\* SpecDashboard: the page is loaded with the token of the first principal, who
\* has no tasks yet, and the dashboard calls the four useTasks functions for
\* any task id, several calls at a time, against the API of the backend guide,
\* for whose response bodies taskService is written
InitDashboard ==
  /\ guide = "backend"
  /\ secret = JWT_SECRET
  /\ listening = TRUE
  /\ now = 0
  /\ users = {Principal(1, "a@x.com"), Principal(2, "b@x.com")}
  /\ registered = {[id |-> u.id, email |-> u.email, password |-> "p1"] : u \in users}
  /\ tasks = {}
  /\ created = 0
  /\ held = [c \in Clients |-> generateToken(IF c = 1 THEN 1 ELSE 2, 0)]
  /\ inflight = [c \in Clients |-> Idle]
  /\ out = Completed(0, NoRequest, NoId, NoResponse)
  /\ localStorage = held[Browser]
  /\ authState = authInitialState(localStorage)
  /\ taskState = taskInitialState
  /\ call = [k \in Clients |-> NoCall]
  /\ rejected = FALSE

DashboardUpdates == {[title |-> "t2", userId |-> NoId]}    \* taskData of an edit

Fetches == \E k \in Clients : FetchTasks(k)
Adds == \E k \in Clients, b \in GateBodies : HandleAddTask(k, b)
Edits ==
  \E k \in Clients, i \in 1..MaxTasks, b \in DashboardUpdates : HandleUpdateTask(k, i, b)
Removals == \E k \in Clients, i \in 1..MaxTasks : HandleDeleteTask(k, i)
Serves == \E k \in Clients : BrowserServe(k) \/ BrowserServeChange(k)
Arrivals == \E k \in Clients : Receive(k)
Settles ==
  \E k \in Clients :
    \/ FetchTasksSettle(k)
    \/ HandleAddTaskSettle(k)
    \/ HandleUpdateTaskSettle(k)
    \/ HandleDeleteTaskSettle(k)

NextDashboard == Fetches \/ Adds \/ Edits \/ Removals \/ Serves \/ Arrivals \/ Settles

SpecDashboard == InitDashboard /\ [][NextDashboard]_vars

\* SpecRace: the first principal is logged in on every client, and the clients
\* send requests to the task routes concurrently, each with its token
InitRace ==
  /\ guide \in Guides
  /\ secret = JWT_SECRET
  /\ listening = TRUE
  /\ now = 0
  /\ users = {Principal(1, "a@x.com"), Principal(2, "b@x.com")}
  /\ registered = {[id |-> u.id, email |-> u.email, password |-> "p1"] : u \in users}
  /\ tasks = {}
  /\ created = 0
  /\ held = [c \in Clients |-> generateToken(1, 0)]
  /\ inflight = [c \in Clients |-> Idle]
  /\ out = Completed(0, NoRequest, NoId, NoResponse)
  /\ BrowserClosed

SpecRace == InitRace /\ [][NextScope]_vars

\* Spec: the whole server from an empty store, every client on every route
Next ==
  \/ NextRegister
  \/ \E c \in Clients, e \in EmailInputs, p \in PasswordInputs : Login(c, e, p)
  \/ \E c \in Clients : \E h \in Headers(c) : GetTasks(c, h)
  \/ \E c \in Clients : \E h \in Headers(c), b \in CreateBodies : CreateTask(c, h, b)
  \/ \E c \in Clients :
       \E h \in Headers(c), i \in TaskIdParams, b \in UpdateBodies : UpdateTask(c, h, i, b)
  \/ \E c \in Clients : UpdateTaskWrite(c)
  \/ \E c \in Clients : \E h \in Headers(c), i \in TaskIdParams : DeleteTask(c, h, i)
  \/ \E c \in Clients : DeleteTaskRemove(c)
  \/ Tick

Spec == Init /\ [][Next]_vars

----------------------------------------------------------------------------
(* Ownership of tasks: C1, C2, C8 *)

\* the ids of the principals in the credential store
PrincipalIds == {u.id : u \in users}

\* the response is the 404 'Task not found'
IsTaskNotFound(res) == res.status = 404 /\ res.message = "Task not found"

\* C1: an updateTask or deleteTask request authenticated as a principal other
\* than the owner of the task it names is answered 404 'Task not found', writes
\* nothing to the tasks collection and leaves no store operation pending, in
\* either guide.
CrossTenantIsolation ==
  [][\A c \in Clients, h \in HeldHeaders, d \in tasks :
       authMiddleware(guide, h, now).principal # d.userId =>
         /\ \A b \in UpdateBodies :
              UpdateTask(c, h, d.id, b) =>
                IsTaskNotFound(out'.res) /\ tasks' = tasks /\ inflight'[c] = Idle
         /\ DeleteTask(c, h, d.id) =>
              IsTaskNotFound(out'.res) /\ tasks' = tasks /\ inflight'[c] = Idle]_vars

\* C1 happens: the last request was an update or delete by a principal of a
\* task that exists and belongs to another principal, and it was answered 404
ForeignTaskRefused ==
  /\ out.req.op \in {"updateTask", "deleteTask"}
  /\ out.principal \in PrincipalIds
  /\ IsTaskNotFound(out.res)
  /\ \E d \in tasks : d.id = out.req.id /\ d.userId # out.principal

\* C2: every stored task's userId is the id of the principal that was
\* authenticated when createTask created it.
OwnerImmutable == \A d \in tasks : d.userId = d.creator

\* C8: for a principal B, updateTask and deleteTask answer an id of a task owned
\* by another principal exactly as they answer an id that matches no task.
ExistenceNonDisclosure ==
  \A B \in PrincipalIds, d \in tasks, i \in TaskIdParams, b \in UpdateBodies :
    (d.userId # B /\ ~\E e \in tasks : e.id = i) =>
      /\ updateTask(guide, tasks, d.id, b, B).res = updateTask(guide, tasks, i, b, B).res
      /\ deleteTask(guide, tasks, d.id, B).res = deleteTask(guide, tasks, i, B).res

----------------------------------------------------------------------------
(* Registration: C3, C4, C6 *)

\* the response is the duplicate-identity rejection of register
IsDuplicateIdentity(res) ==
  res.status = 400 /\ res.message = "User already exists" /\ res.token = NoToken

\* C3: of the register requests that carry one email, one is answered 201 with a
\* token and every other one gets the duplicate-identity rejection, however
\* their store operations interleave: a completed register with a password and
\* a name, whose email has a principal, was answered 201 or 'User already exists'.
ConcurrentRegisterOneSuccess ==
  ( /\ out.req.op = "register"
    /\ Required(out.req.password) /\ Required(out.req.name)
    /\ \E r \in registered : r.email = out.req.email ) =>
    \/ out.res.status = 201 /\ out.res.token # NoToken
    \/ IsDuplicateIdentity(out.res)

\* C4: no two stored principals have emails that are equal after case
\* normalization.
EmailUniqueNormalized ==
  \A u \in users, v \in users :
    u # v => toLowerCase(u.email) # toLowerCase(v.email)

\* C6: a register whose email is already in the credential store when the
\* request arrives is answered with the duplicate-identity rejection and no
\* token, whatever its password and name, and leaves the store as it was.
DuplicateRegisterRejected ==
  [][\A c \in Clients, b \in RegisterBodies :
       (RegisterFindOne(c, b) /\ \E u \in users : u.email = b.email) =>
         /\ IsDuplicateIdentity(out'.res)
         /\ users' = users
         /\ held' = held
         /\ inflight'[c] = Idle]_vars

\* C6 happens: the last request was a register with a stored email and another
\* password than the stored principal's, and it was rejected as a duplicate
DuplicateRegisterSeen ==
  /\ out.req.op = "register"
  /\ IsDuplicateIdentity(out.res)
  /\ \E u \in users : u.email = out.req.email /\ u.password.text # out.req.password

----------------------------------------------------------------------------
(* Login and the auth gate: C5, C7, C9, C10 *)

\* no principal was registered with this email, in any letter case
NeverRegistered(email) ==
  ~\E r \in registered : toLowerCase(r.email) = toLowerCase(email)

\* the token's signature verifies against the process signing secret
SignatureVerifies(token) ==
  token.form = "jwt" /\ token.sig = HS256(token.id, token.iat, token.exp, JWT_SECRET)

\* C5: a register with a name, a non-empty password and an email not registered
\* before passes the existence check and is answered 201; and a login with the
\* email and password of a register that created a principal is answered 200
\* with a token that the auth middleware accepts at every time before its
\* expiry, attaching the id of that principal.
RegisterThenLogin ==
  [][/\ \A c \in Clients, b \in RegisterBodies :
          (Required(b.email) /\ NeverRegistered(b.email) /\ RegisterFindOne(c, b)) =>
            inflight'[c].pc = "create"
     /\ \A c \in Clients, s \in Salts :
          LET req == inflight[c].req
          IN ( /\ Required(req.email) /\ Required(req.password) /\ Required(req.name)
               /\ NeverRegistered(req.email)
               /\ RegisterCreate(c, s) ) =>
               /\ out'.res.status = 201
               /\ \E r \in registered' \ registered :
                    r.email = req.email /\ r.password = req.password
     /\ \A c \in Clients, r \in registered :
          (out'.req.email = r.email /\ Login(c, r.email, r.password)) =>
            /\ out'.res.status = 200
            /\ \A t \in now..MaxTime :
                 t < out'.res.token.exp =>
                   /\ authMiddleware(guide, Bearer(out'.res.token), t).next
                   /\ authMiddleware(guide, Bearer(out'.res.token), t).principal = r.id]_vars

\* C5 happens: the last request was a login with the credentials of a register,
\* it returned a token, and at a later time before its expiry the middleware
\* accepts that token
LoginTokenAccepted ==
  /\ out.req.op = "login"
  /\ out.res.status = 200
  /\ \E r \in registered : r.email = out.req.email /\ r.password = out.req.password
  /\ now > out.res.token.iat
  /\ authMiddleware(guide, Bearer(out.res.token), now).next

\* C7: a login with a registered email and a wrong password gets exactly the
\* response of a login with an email that is not registered.
LoginNonDisclosure ==
  \A u \in users, e \in Emails, p \in PasswordInputs :
    (p # u.password.text /\ NeverRegistered(e)) =>
      LoginResponse(guide, users, u.email, p, now) = LoginResponse(guide, users, e, p, now)

\* C9: the middleware on a task route calls next, attaching the token's
\* principal, exactly when the presented token's signature verifies against the
\* process secret and the time is strictly before the token's expiry.
TokenValidIffSignedAndFresh ==
  [][\A c \in Clients : \A h \in Headers(c) :
       (out'.req.header = h /\ GetTasks(c, h)) =>
         ( (out'.res.status = 200 /\ out'.principal = HeaderToken(h).id)
             <=> (SignatureVerifies(HeaderToken(h)) /\ now < HeaderToken(h).exp) )]_vars

\* C9 happens: a token signed by the server was presented at its expiry instant
\* and the request was answered 401
RejectedAtExpiryInstant ==
  /\ out.req.op = "getTasks"
  /\ out.res.status = 401
  /\ SignatureVerifies(out.req.header.token)
  /\ now = out.req.header.token.exp

\* C10: the middleware answers every presented token that it rejects, whether
\* expired, wrongly signed or malformed, with one and the same status and body.
RejectionsAlike ==
  [][\A c \in Clients : \A h \in Headers(c), k \in Headers(c) :
       ( /\ out'.res.status # 200
         /\ out'.req.header = h
         /\ ~TokenMissing(HeaderToken(h)) /\ ~TokenMissing(HeaderToken(k))
         /\ ~authMiddleware(guide, k, now).next
         /\ GetTasks(c, h) ) =>
         out'.res = authMiddleware(guide, k, now).res]_vars

\* C10 happens: the last request carried an expired token of the server and was
\* answered 401, while the client can also present wrongly signed and malformed
\* tokens
ExpiredTokenRejected ==
  /\ out.req.op = "getTasks"
  /\ out.res.status = 401
  /\ jwtVerify(out.req.header.token, JWT_SECRET, now) = "jwt expired"
  /\ \E k \in Headers(out.client) :
       jwtVerify(HeaderToken(k), JWT_SECRET, now) = "invalid signature"
  /\ \E k \in Headers(out.client) :
       jwtVerify(HeaderToken(k), JWT_SECRET, now) = "jwt malformed"

----------------------------------------------------------------------------
(* The auth gate of the task routes: C11 *)

TaskOps == {"getTasks", "createTask", "updateTask", "deleteTask"}

\* C11: every request to a task route is either rejected with 401, without a
\* task handler running (no principal attached, no task read out or written,
\* no store operation pending), or authenticated, its handler running with the
\* principal of a token that jwt.verify accepted; a request without a token is
\* rejected without jwt.verify being called; and a handler suspended before its
\* second store operation holds a verified principal.
AuthGate ==
  [][/\ \A c \in Clients :
          LET ended == inflight'[c] = Idle
              req == IF ended THEN out'.req ELSE inflight'[c].req
              principal == IF ended THEN out'.principal ELSE inflight'[c].principal
              token == HeaderToken(req.header)
              auth == authMiddleware(guide, req.header, now)
          IN ( /\ inflight[c] = Idle
               /\ now' = now
               /\ req.op \in TaskOps
               /\ ended => out'.client = c ) =>
               /\ TokenMissing(token) => ~auth.verified
               /\ IF ~TokenMissing(token) /\ jwtVerify(token, secret, now) = "ok"
                  THEN auth.verified /\ principal = token.id
                  ELSE /\ ended
                       /\ out'.res.status = 401
                       /\ out'.principal = NoId
                       /\ out'.res.task = NoTask /\ out'.res.list = {}
                       /\ tasks' = tasks
     /\ \A c \in Clients :
          inflight[c].pc \in {"write", "remove"} => inflight[c].principal \in PrincipalIds]_vars

\* C11 happens: while tasks are stored, the last request to a task route carried
\* no token and was answered 401
MissingTokenRejected ==
  /\ out.req.op \in TaskOps
  /\ TokenMissing(HeaderToken(out.req.header))
  /\ out.res.status = 401
  /\ tasks # {}

----------------------------------------------------------------------------
(* Reading tasks: C12 *)

\* C12: getTasks for an authenticated principal answers 200 with exactly the
\* stored tasks whose userId is that principal's id: every task the principal
\* owns is in the list, and no task of another principal and no document that
\* is not stored is.
GetTasksOwnedOnly ==
  [][\A c \in Clients, h \in HeldHeaders :
       (out'.req.header = h /\ GetTasks(c, h)) =>
         /\ out'.res.status = 200
         /\ out'.principal = HeaderToken(h).id
         /\ out'.res.list \subseteq tasks
         /\ \A d \in tasks : d \in out'.res.list <=> d.userId = HeaderToken(h).id]_vars

\* C12 happens: the last request was a getTasks that returned a task of its
\* principal while a task of another principal is stored
OwnTasksListed ==
  /\ out.req.op = "getTasks"
  /\ out.res.status = 200
  /\ out.res.list # {}
  /\ \E d \in tasks : d.userId # out.principal /\ d \notin out.res.list

----------------------------------------------------------------------------
(* The password digest: C13, C14 *)

\* C13: no response of register or login carries the password digest of a
\* principal: the user object of the response has no hashed password field.
NoDigestInResponse ==
  out.req.op \in {"register", "login"} => ~out.res.user.password.hashed

\* C14: the password field of every stored principal is the digest bcrypt made
\* of the password of the register that created it, hashed once and never the
\* plaintext, and saving the stored document again without modifying the
\* password leaves the digest as it is.
StoredPasswordHashedOnce ==
  \A u \in users :
    /\ u.password.hashed
    /\ \E r \in registered :
         /\ r.id = u.id
         /\ u.password # Plain(r.password)
         /\ u.password = bcryptHash(r.password, u.password.salt)
    /\ \A s \in Salts : preSave(u, FALSE, s) = u

\* C14 happens: two principals are stored, each with the digest of its own
\* registered password, and the passwords differ
TwoDigestsStored ==
  \E u \in users, v \in users :
    /\ u.password.text # v.password.text
    /\ \A w \in {u, v} : \E r \in registered :
         r.id = w.id /\ bcryptCompare(r.password, w.password)

----------------------------------------------------------------------------
(* Faults: C15 *)

\* the request met a fault: jwt.verify threw on its token when the request
\* arrived, its :id did not cast, its document failed validation, or the store
\* raised an error
Faulted(arrives, req, res) ==
  \/ /\ arrives
     /\ ~TokenMissing(HeaderToken(req.header))
     /\ jwtVerify(HeaderToken(req.header), secret, now) # "ok"
  \/ req.op \in {"updateTask", "deleteTask"} /\ CastFails(req.id)
  \/ req.op = "createTask" /\ ~Required(req.body.title)
  \/ res.message = StoreError

\* C15: a request to a task route that meets a fault ends with an error
\* response (401 from the middleware, 500 from the handler) that carries no
\* task, and the tasks collection is as it was before the step: nothing is
\* read out, created, modified or deleted.
FailClosed ==
  [][\A c \in Clients :
       ( /\ now' = now
         /\ out' # out
         /\ out'.client = c
         /\ out'.req.op \in TaskOps
         /\ Faulted(inflight[c] = Idle, out'.req, out'.res) ) =>
         /\ out'.res.status \in {401, 500}
         /\ out'.res.message # Undef \/ out'.res.error # Undef
         /\ out'.res.task = NoTask /\ out'.res.list = {}
         /\ tasks' = tasks /\ created' = created
         /\ inflight'[c] = Idle]_vars

\* C15 happens: the store failed under the second store operation of an update
\* or delete of the principal's own task, which is answered 500 and still stored
LateFaultAnswered ==
  /\ out.req.op \in {"updateTask", "deleteTask"}
  /\ out.res.status = 500 /\ out.res.message = StoreError
  /\ guide = "backend"
  /\ \E d \in tasks : d.id = out.req.id /\ d.userId = out.principal /\ d.title = "t"

----------------------------------------------------------------------------
(* Configuration: C16, C20 *)

\* C16: in a run whose environment has no JWT_SECRET the server never listens
\* and no request is processed.
SecretAbsentNotServing ==
  secret = Undef => (~listening /\ out.req.op = "none")

\* C20: a register that is answered with another status than 201 leaves the
\* users collection as it was before the step.
RegisterAllOrNothing ==
  [][\A c \in Clients :
       ( /\ out' # out
         /\ out'.client = c
         /\ out'.req.op = "register"
         /\ out'.res.status # 201 ) =>
         users' = users]_vars

----------------------------------------------------------------------------
(* The principal of a request: C18, C19 *)

\* C18: while requests of clients with tokens of different principals
\* interleave, the handler of each request runs with the id in the token of
\* its own request: the principal it is given, the tasks a getTasks lists and
\* the owner of a task a createTask inserts are those of that token.
RequestScopedPrincipal ==
  [][\A c \in Clients :
       LET ended == inflight'[c] = Idle
           req == IF ended THEN out'.req ELSE inflight'[c].req
           principal == IF ended THEN out'.principal ELSE inflight'[c].principal
           own == HeaderToken(req.header).id
       IN ( /\ inflight'[c] # inflight[c] \/ (out' # out /\ out'.client = c)
            /\ ended => out'.client = c
            /\ req.op \in TaskOps ) =>
            /\ principal = own
            /\ (ended /\ req.op = "getTasks") => \A d \in out'.res.list : d.userId = own
            /\ req.op = "createTask" => \A d \in tasks' \ tasks : d.userId = own]_vars

\* C18 happens: the request of one principal completed with success while the
\* handler of another principal's request is suspended at its store operation
InterleavedPrincipals ==
  \E c \in Clients :
    /\ inflight[c].pc \in {"write", "remove"}
    /\ out.client # c
    /\ out.res.status \in {200, 201}
    /\ out.principal \in PrincipalIds \ {inflight[c].principal}

\* C19: createTask stores the new task with the userId of the authenticated
\* principal, whatever the body says, and answers with that task.
CreateTaskOwnerOverride ==
  [][\A c \in Clients, h \in HeldHeaders, b \in CreateBodies :
       (out'.req.body = b /\ out'.req.header = h /\ CreateTask(c, h, b)) =>
         /\ \A d \in tasks' \ tasks : d.userId = HeaderToken(h).id
         /\ out'.res.status = 201 =>
              /\ out'.res.task.userId = HeaderToken(h).id
              /\ out'.res.task \in tasks' \ tasks]_vars

\* C19 happens: the last request was a createTask whose body named another
\* principal as userId, and the task was stored for the authenticated one
BodyUserIdOverridden ==
  /\ out.req.op = "createTask"
  /\ out.res.status = 201
  /\ out.req.body.userId \in PrincipalIds \ {out.principal}
  /\ out.res.task.userId = out.principal
  /\ out.res.task \in tasks

----------------------------------------------------------------------------
(* The browser's session: C17 *)

\* the browser is logged out
LoggedOut ==
  /\ ~authState.isAuthenticated
  /\ authState.token = NoToken
  /\ localStorage = NoToken

\* the response to a request that carried the stored, expired token is a 401
\* and is on the wire to the browser
ExpiredAnswered401 ==
  /\ call[Browser].pc = "sent"
  /\ out.client = Browser
  /\ out.res.status = 401
  /\ localStorage # NoToken
  /\ call[Browser].header = Bearer(localStorage)
  /\ jwtVerify(localStorage, secret, now) = "jwt expired"

\* C17: whenever a request of the browser that carried its expired token is
\* answered 401, the browser is eventually logged out: isAuthenticated false,
\* no token in the auth state and none in localStorage.
ExpiredTokenLogsOut == ExpiredAnswered401 ~> LoggedOut

----------------------------------------------------------------------------
(* Concurrent requests of one owner: C21, C22 *)

\* C21: in every interleaving, a 200 response of updateTask carries a task
\* that is not null, is owned by the caller and is in the store as that
\* request wrote it.
UpdateSuccessMeansUpdated ==
  [][(/\ out' # out
      /\ out'.req.op = "updateTask"
      /\ out'.res.status = 200)
     => (/\ out'.res.task # NoTask
         /\ out'.res.task.userId = out'.principal
         /\ out'.res.task \in tasks')]_vars

\* C22: of the deleteTask requests of the owner for one task id, the request
\* that removes the task is answered 200 'Task deleted' and every other one
\* 404 'Task not found': a delete is answered 200 exactly when its own step
\* removed the task from the store, and 404 otherwise.
DeleteAnsweredOnce ==
  [][(/\ out' # out
      /\ out'.req.op = "deleteTask"
      /\ out'.principal # NoId)
     => IF \E d \in tasks : d.id = out'.req.id /\ d \notin tasks'
        THEN out'.res.status = 200 /\ out'.res.message = "Task deleted"
        ELSE out'.res.status = 404 /\ out'.res.message = "Task not found"]_vars

----------------------------------------------------------------------------
(* Error messages: C24 *)

\* the messages the controllers and the middleware write as literals
StableMessages ==
  {"User already exists", "Please provide email and password", "Invalid credentials",
   "Not authorized to access this route", "Token is invalid", "No token provided",
   "Invalid token", "Task not found"}

\* C24: every error response carries one of the fixed messages of the
\* controllers and the middleware, never the text of an exception raised by
\* the store or a library.
ErrorMessagesStable ==
  out.res.status >= 400 =>
    (IF out.res.error # Undef THEN out.res.error ELSE out.res.message) \in StableMessages

----------------------------------------------------------------------------
(* Logout on the server: C25 *)

\* the auth middleware accepts the token
Accepted(token) == authMiddleware(guide, Bearer(token), now).next

\* C25: POST /api/auth/logout changes no state of the server, and a token a
\* client holds stops being accepted by the auth middleware in no step but
\* the one in which the clock reaches the token's expiry; so a token issued
\* before a logout is accepted after it at every time before its expiry.
LogoutStateless ==
  [][/\ (out' # out /\ out'.req.op = "logout") =>
          UNCHANGED <<secret, listening, now, users, tasks, created, registered>>
     /\ \A c \in Clients :
          (held[c] # NoToken /\ Accepted(held[c]) /\ ~Accepted(held[c])') =>
            (now' # now /\ now' >= held[c].exp)]_vars

\* a logout was answered 200 and the token it carried, issued before, is
\* still accepted
AcceptedAfterLogout ==
  /\ out.req.op = "logout"
  /\ out.res.status = 200
  /\ held[out.client] # NoToken
  /\ out.req.header = Bearer(held[out.client])
  /\ Accepted(held[out.client])

----------------------------------------------------------------------------
(* The frame of the task routes: C27 *)

\* the tasks with another id than id are the same before and after the step
OthersUnchanged(id) ==
  /\ \A d \in tasks : d.id # id => d \in tasks'
  /\ \A d \in tasks' : d.id # id => d \in tasks

\* C27: a successful updateTask or deleteTask changes or removes only the
\* task it names: every other task and every principal is as before; and a
\* getTasks, a login, a request the middleware rejects and every step that
\* sends no response change no task and no principal.
OwnerOperationFrame ==
  [][/\ users' = users
     /\ IF out' # out /\ out'.req.op \in {"updateTask", "deleteTask"}
           /\ out'.res.status = 200
        THEN OthersUnchanged(out'.req.id)
        ELSE IF out' # out /\ out'.req.op = "createTask" /\ out'.res.status = 201
        THEN \A d \in tasks : d \in tasks'
        ELSE tasks' = tasks]_vars

\* the owner's delete or update of one task succeeded while the store holds
\* another task
OwnerChangedOneOfTwo ==
  /\ out.req.op \in {"updateTask", "deleteTask"}
  /\ out.res.status = 200
  /\ \E d \in tasks : d.id # out.req.id /\ d.userId = out.principal

----------------------------------------------------------------------------
(* The middleware and the users collection: C28 *)

\* jwt.verify accepts the token of the header under the process secret now
Verifies(header) ==
  /\ ~TokenMissing(HeaderToken(header))
  /\ jwtVerify(HeaderToken(header), secret, now) = "ok"

\* C28: whatever the users collection holds, a request to a task route is
\* rejected by the middleware exactly when its token does not verify under
\* the secret at the current time, also when the token's principal is not in
\* the collection; and the step leaves the users collection as it was.
MiddlewareIgnoresStore ==
  [][\A c \in Clients :
       LET ended == inflight'[c] = Idle
           req == IF ended THEN out'.req ELSE inflight'[c].req
       IN ( /\ inflight[c] = Idle
            /\ now' = now
            /\ req.op \in TaskOps
            /\ ended => out'.client = c ) =>
            /\ users' = users
            /\ (ended /\ out'.res.status = 401) <=> ~Verifies(req.header)]_vars

\* a request with the token of a principal that is not in the users collection
\* was let through to its handler
AcceptedWithoutPrincipal ==
  /\ out.req.op \in TaskOps
  /\ out.res.status \in {200, 201}
  /\ Verifies(out.req.header)
  /\ ~\E u \in users : u.id = out.principal

----------------------------------------------------------------------------
(* The browser's auth state: C26 *)

\* isAuthenticated tells whether the state holds a token, and localStorage
\* holds that token, or no entry when there is none
AuthStateConsistent ==
  /\ authState.isAuthenticated <=> authState.token # NoToken
  /\ localStorage = authState.token

\* C26: from the page load on, through every sequence of loginStart,
\* loginSuccess, loginFailure and logout, isAuthenticated is true exactly when
\* the state holds a token and localStorage holds exactly that token; and a
\* loginStart or loginFailure leaves token, isAuthenticated and localStorage
\* as they were.
AuthStateInvariant ==
  /\ AuthStateConsistent
  /\ [][/\ AuthStateConsistent'
        /\ (\/ authState' = loginStart(authState)
            \/ \E payload \in LoginErrors : authState' = loginFailure(authState, payload))
           => /\ authState'.token = authState.token
              /\ authState'.isAuthenticated = authState.isAuthenticated
              /\ localStorage' = localStorage]_vars

\* a login succeeded after a logout or a failure: the state holds a token
\* other than the one the page was loaded with
LoggedInAgain ==
  /\ authState.isAuthenticated
  /\ authState.user # NoUser
  /\ authState.error # Undef
  /\ localStorage # held[Browser]

----------------------------------------------------------------------------
(* The dashboard's task list: C23, C29, C30 *)

\* no call of a useTasks function is in flight
Quiescent == \A k \in Clients : call[k].pc = "idle"

\* the tasks the server holds for the principal of the browser's token
ServerTasks == TaskFind(tasks, localStorage.id)

\* C23: when every call of a useTasks function has completed and none was
\* rejected, the Redux task list holds exactly the tasks the server holds for
\* the user, each once.
ListConverges ==
  (Quiescent /\ ~rejected) =>
    /\ taskState.defined
    /\ Len(taskState.tasks) = Cardinality(ServerTasks)
    /\ {taskState.tasks[i] : i \in 1..Len(taskState.tasks)} = ServerTasks

\* C29: when the call of handleAddTask, handleUpdateTask or handleDeleteTask is
\* answered with an error status, the function returns with the task state as
\* it was before; and when handleUpdateTask's call succeeds with a task whose
\* _id is not in the list, the list is as it was before.
FailedCallLeavesList ==
  [][\A k \in Clients :
       (call[k].pc = "answered" /\ call'[k].pc = "idle") =>
         /\ ( /\ call[k].op \in {"createTask", "updateTask", "deleteTask"}
              /\ call[k].res.status \notin 200..299 ) => taskState' = taskState
         /\ ( /\ call[k].op = "updateTask"
              /\ call[k].res.status \in 200..299
              /\ \A i \in 1..Len(taskState.tasks) :
                   taskState.tasks[i].id # call[k].res.task.id )
            => taskState'.tasks = taskState.tasks]_vars

\* a call of handleUpdateTask or handleDeleteTask for a task in the list was
\* rejected, and the list still holds the task
RejectedWithTaskListed ==
  /\ rejected
  /\ Quiescent
  /\ taskState.tasks # <<>>

\* C30: tasks.loading is true in every state in which a fetchTasks call is in
\* flight, and false in every state in which none is.
LoadingWhileFetching ==
  taskState.loading <=> \E k \in Clients : call[k].op = "getTasks"

====
